---- MODULE Spec2Model ----
(***************************************************************************)
(* The virtualized line-range content engine (the useVirtualizedContent    *)
(* hook): Line Store, Loaded-Range Set, pending-key set, Edit Overlay, the  *)
(* load and save protocols, and the memoised isFullyLoaded / fullContent.   *)
(*                                                                         *)
(* One action is one event of the single-threaded host: a call made by the *)
(* UI, the settling of one awaited request, or a change of the props.  An   *)
(* action runs the handler's synchronous code, then the re-render and the   *)
(* effects the state change schedules (state updates made in one handler    *)
(* are batched into one render).                                           *)
(***************************************************************************)
EXTENDS Integers, Sequences, FiniteSets, Bags, TLC

\* ---- bounds of the model ----
MaxLines == 4        \* line indices and totals range over 0..MaxLines
chunkSize == 2       \* the chunkSize option
MaxFetches == 2      \* fetches in flight at once
MaxSaves == 2        \* saves in flight at once
MaxSteps == 4        \* events in one behaviour
MaxScroll == 7       \* scrollTop ranges over 0..MaxScroll
MaxViewport == 4     \* viewportHeight ranges over 0..MaxViewport
MaxLineHeight == 3   \* lineHeight ranges over 1..MaxLineHeight
MaxOverscan == 2     \* the overscan option ranges over 0..MaxOverscan
MaxTotal == 5        \* totalLines of the geometry runs ranges over 0..MaxTotal
MaxRanges == 3       \* length of the lists handed to mergeRanges alone
MaxCalls == 1        \* calls on the TTS cache in one behaviour
MaxCachers == 2      \* cacheAudio calls that run at once
DefaultOverscan == 50   \* overscan = 50 unless the caller sets it

Content == {"x", "y"}          \* line contents
Files == {"A", "B"}            \* file identities
InitialTotals == {0, 2}        \* values of the initialTotalLines option

MaxEnd == IF chunkSize > MaxLines THEN chunkSize ELSE MaxLines
LineIdx == 0..(MaxEnd - 1)
Windows == {w \in (0..MaxEnd) \X (0..MaxEnd) : w[1] < w[2]}
Requests == {r \in [file : Files, start : 0..MaxEnd, end : 0..MaxEnd] : r.start < r.end}
\* the texts a file can hold: every line reads the same
Texts == {[n \in LineIdx |-> c] : c \in Content}
\* the line counts a response reports: an empty file, a shorter file, the full file
Totals == {0, MaxLines - 1, MaxLines}

NoLine == [content |-> "", loaded |-> FALSE]   \* Map.get(n) of a missing line
NoEdit == "undefined"                          \* Map.get(n) of an unedited line
NoError == "null"
NullContent == "null"

\* ---- the TTS cache (backend) ----
CACHE_TTL_MS == 24 * 60 * 60 * 1000
MAX_CACHE_SIZE_MB == 200
MAX_CACHE_SIZE_BYTES == MAX_CACHE_SIZE_MB * 1024 * 1024

CacheKeys == {"k1", "k2", "k3"}
\* the names in the cache directory: `${cacheKey}.mp3`, and a foreign file
Mp3Name(cacheKey) == [base |-> cacheKey, ext |-> ".mp3"]
Mp3Names == {Mp3Name(k) : k \in CacheKeys}
FileNames == Mp3Names \cup {[base |-> "readme", ext |-> ".txt"]}
endsWithMp3(file) == file.ext = ".mp3"
\* audio buffers: what they hold and their length in bytes
AudioData == {[bytes |-> "a", length |-> MAX_CACHE_SIZE_BYTES \div 2],
              [bytes |-> "b", length |-> MAX_CACHE_SIZE_BYTES \div 2 + 1]}
\* the mtimes of the files that earlier runs of the server left in the cache
OldMtimes == {0, 1, 2}
\* the values Date.now() takes
Times == {2, CACHE_TTL_MS, CACHE_TTL_MS + 1}
RequiredSpaces == {0, 1, MAX_CACHE_SIZE_BYTES \div 2 + 1, MAX_CACHE_SIZE_BYTES}
NoFile == [exists |-> FALSE]                    \* stat of a missing file rejects
NoAudio == [bytes |-> "null", length |-> -1]    \* the null that getCachedAudio returns
\* the file operation that rejects during a call (at: which of the unlinks)
Failure(op, at) == [op |-> op, at |-> at]
NoFailure == Failure("none", 0)

VARIABLES
    filePath, enabled, initialTotalLines,      \* props
    lines, totalLines, isLoading, isSaving, error, editedLines,   \* useState
    loadingRanges, loadedRanges,               \* useRef
    isFullyLoaded, fullContent,                \* useMemo
    overscan,                                  \* option
    visible,                                   \* the last getVisibleRange call and its result
    merging,                                   \* a list of ranges and what mergeRanges makes of it
    cacheFiles, now,                           \* the TTS cache directory and the clock
    tts,                                       \* the last call on the TTS cache and what it returned
    caching,                                   \* cacheAudio calls between their awaits
    fetches,                                   \* fetchFileRange calls awaited
    saves,                                     \* applyFilePatches calls awaited
    fetchedLines,                              \* history: line indices returned by fetches since the last reset
    last,                                      \* history: the last event
    steps                                      \* history: the number of events so far

engineVars == <<filePath, enabled, initialTotalLines, lines, totalLines, isLoading,
                isSaving, error, editedLines, loadingRanges, loadedRanges,
                isFullyLoaded, fullContent, fetches, saves, fetchedLines, last, steps>>

geometryVars == <<overscan, visible>>

ttsVars == <<cacheFiles, now, tts, caching>>

vars == <<engineVars, geometryVars, merging, ttsVars>>

\* ---- small helpers ----
Min(a, b) == IF a < b THEN a ELSE b
Max(a, b) == IF a > b THEN a ELSE b

EmptyLines == [n \in LineIdx |-> NoLine]
EmptyEdits == [n \in LineIdx |-> NoEdit]
NoFetches == EmptyBag

Keys(m) == {n \in DOMAIN m : m[n] # NoEdit}
Size(m) == Cardinality(Keys(m))
InFlight(f) == BagCardinality(f)

RECURSIVE Join(_, _)
Join(strs, sep) ==
    IF Len(strs) = 0 THEN ""
    ELSE IF Len(strs) = 1 THEN strs[1]
    ELSE strs[1] \o sep \o Join(Tail(strs), sep)

\* `${startLine}-${endLine}`
rangeKey(startLine, endLine) == ToString(startLine) \o "-" \o ToString(endLine)

\* ---- Loaded-Range Set ----
isRangeLoaded(ranges, start, end) ==
    \E i \in 1..Len(ranges) : ranges[i].start <= start /\ ranges[i].end >= end

\* Array.prototype.sort((a, b) => a.start - b.start): stable
RECURSIVE InsertByStart(_, _)
InsertByStart(sorted, r) ==
    IF Len(sorted) = 0 THEN <<r>>
    ELSE IF sorted[Len(sorted)].start <= r.start THEN Append(sorted, r)
    ELSE Append(InsertByStart(SubSeq(sorted, 1, Len(sorted) - 1), r), sorted[Len(sorted)])

\* mutant: the list is swept in insertion order
SortByStart_AsIs(ranges) == ranges

RECURSIVE SortByStart(_)
SortByStart(ranges) ==
    IF Len(ranges) = 0 THEN <<>>
    ELSE InsertByStart(SortByStart(SubSeq(ranges, 1, Len(ranges) - 1)), ranges[Len(ranges)])

\* mutant: ranges that only touch are left apart
Absorbs_OverlapOnly(current, next) == next.start < current.end

Absorbs(current, next) == next.start <= current.end + 1

RECURSIVE Sweep(_, _, _, _)
Sweep(sorted, i, current, merged) ==
    IF i > Len(sorted) THEN Append(merged, current)
    ELSE LET next == sorted[i] IN
         IF Absorbs(current, next)
         THEN Sweep(sorted, i + 1,
                    [start |-> current.start, end |-> Max(current.end, next.end)], merged)
         ELSE Sweep(sorted, i + 1, next, Append(merged, current))

mergeRanges(ranges) ==
    IF Len(ranges) <= 1 THEN ranges
    ELSE LET sorted == SortByStart(ranges) IN Sweep(sorted, 2, sorted[1], <<>>)

Covered(ranges) ==
    {n \in 0..MaxEnd : \E i \in 1..Len(ranges) : ranges[i].start <= n /\ n < ranges[i].end}

\* ---- the hook's state as one value, so that handlers compose ----
Cur ==
    [filePath |-> filePath, enabled |-> enabled, initialTotalLines |-> initialTotalLines,
     lines |-> lines, totalLines |-> totalLines, isLoading |-> isLoading,
     isSaving |-> isSaving, error |-> error, editedLines |-> editedLines,
     loadingRanges |-> loadingRanges, loadedRanges |-> loadedRanges,
     isFullyLoaded |-> isFullyLoaded, fullContent |-> fullContent,
     fetches |-> fetches, saves |-> saves, fetchedLines |-> fetchedLines,
     linesSet |-> FALSE]

\* ---- loadRange, up to its await ----
IsPending(h, key) == key \in h.loadingRanges

\* mutant: the subsumption guard is missing
loadRange_NoSubsumption(h, startLine, endLine) ==
    LET rangeKey_ == rangeKey(startLine, endLine)
        req == [file |-> h.filePath, start |-> startLine, end |-> endLine]
    IN  IF ~h.enabled \/ h.filePath = "" THEN h
        ELSE IF IsPending(h, rangeKey_) THEN h
        ELSE [h EXCEPT !.loadingRanges = @ \cup {rangeKey_},
                       !.isLoading = TRUE,
                       !.error = NoError,
                       !.fetches = @ (+) SetToBag({req})]

loadRange(h, startLine, endLine) ==
    LET rangeKey_ == rangeKey(startLine, endLine)
        req == [file |-> h.filePath, start |-> startLine, end |-> endLine]
    IN  IF ~h.enabled \/ h.filePath = "" THEN h
        ELSE IF IsPending(h, rangeKey_) THEN h
        ELSE IF isRangeLoaded(h.loadedRanges, startLine, endLine) THEN h
        ELSE [h EXCEPT !.loadingRanges = @ \cup {rangeKey_},
                       !.isLoading = TRUE,
                       !.error = NoError,
                       !.fetches = @ (+) SetToBag({req})]

\* ---- useMemo values ----
computeIsFullyLoaded(total, ranges) ==
    IF total = 0 THEN FALSE ELSE isRangeLoaded(ranges, 0, total)

computeFullContent(fully, total, store) ==
    IF ~fully \/ total = 0 THEN NullContent
    ELSE Join([i \in 1..total |-> IF (i - 1) \in DOMAIN store
                                  THEN store[i - 1].content ELSE ""], "\n")

\* isFullyLoaded: deps [totalLines, isRangeLoaded]; isRangeLoaded never changes identity
IsFullyLoadedStale(prev, h) == h.totalLines = prev.totalLines

\* mutant: lines is missing from the dependency list
FullContentStale_NoLinesDep(prev, h, fully) ==
    fully = prev.isFullyLoaded /\ h.totalLines = prev.totalLines

\* fullContent: deps [isFullyLoaded, totalLines, lines]
FullContentStale(prev, h, fully) ==
    fully = prev.isFullyLoaded /\ h.totalLines = prev.totalLines /\ ~h.linesSet

\* one render: prev is the previous render's state, h the state to render
Render(prev, h) ==
    LET fully == IF IsFullyLoadedStale(prev, h) THEN prev.isFullyLoaded
                 ELSE computeIsFullyLoaded(h.totalLines, h.loadedRanges)
        full == IF FullContentStale(prev, h, fully) THEN prev.fullContent
                ELSE computeFullContent(fully, h.totalLines, h.lines)
    IN  [h EXCEPT !.isFullyLoaded = fully, !.fullContent = full, !.linesSet = FALSE]

\* ---- effects ----
\* useEffect(() => { if (enabled && filePath && totalLines === 0) loadRange(0, chunkSize) })
InitialLoadEffect(h) ==
    IF h.enabled /\ h.filePath # "" /\ h.totalLines = 0
    THEN loadRange(h, 0, chunkSize) ELSE h

\* mutant: the reset leaves the overlay alone
ResetEffect_KeepsEdits(h) ==
    [h EXCEPT !.lines = EmptyLines, !.linesSet = TRUE,
              !.totalLines = h.initialTotalLines,
              !.loadedRanges = <<>>,
              !.loadingRanges = {},
              !.fetchedLines = {}]

\* useEffect(() => { setLines(new Map()) ... loadingRanges.current.clear() }, [filePath, initialTotalLines])
ResetEffect(h) ==
    [h EXCEPT !.lines = EmptyLines, !.linesSet = TRUE,
              !.editedLines = EmptyEdits,
              !.totalLines = h.initialTotalLines,
              !.loadedRanges = <<>>,
              !.loadingRanges = {},
              !.fetchedLines = {}]

\* the effects of the commit of render r, whose previous commit was prev
Effects(prev, r) ==
    LET loadDeps == r.enabled # prev.enabled \/ r.filePath # prev.filePath
                    \/ r.totalLines # prev.totalLines
        resetDeps == r.filePath # prev.filePath
                     \/ r.initialTotalLines # prev.initialTotalLines
        h1 == IF loadDeps THEN InitialLoadEffect(r) ELSE r
    IN  IF resetDeps THEN ResetEffect(h1) ELSE h1

\* render after a handler, run the effects, render again until nothing is scheduled
Commit(prev, h) ==
    LET r1 == Render(prev, h)
        h1 == Effects(prev, r1)
        r2 == Render(r1, h1)
        h2 == Effects(r1, r2)
    IN  Render(r2, h2)

\* the first render and its effects (every effect runs on mount)
Mount(f, en, itl) ==
    LET h0 == [filePath |-> f, enabled |-> en, initialTotalLines |-> itl,
               lines |-> EmptyLines, totalLines |-> itl, isLoading |-> FALSE,
               isSaving |-> FALSE, error |-> NoError, editedLines |-> EmptyEdits,
               loadingRanges |-> {}, loadedRanges |-> <<>>,
               isFullyLoaded |-> computeIsFullyLoaded(itl, <<>>),
               fullContent |-> computeFullContent(computeIsFullyLoaded(itl, <<>>), itl, EmptyLines),
               fetches |-> NoFetches, saves |-> <<>>, fetchedLines |-> {},
               linesSet |-> FALSE]
        h1 == ResetEffect(InitialLoadEffect(h0))
        r2 == Render(h0, h1)
        h2 == Effects(h0, r2)
    IN  Render(r2, h2)

\* the last event: the operation, whether it issued a request, whether it threw
\* to its caller, and for a settled save the overlay the call closed over and
\* the totalLines of the response
Event(op, issued, thrown, edited, total) ==
    [op |-> op, issued |-> issued, thrown |-> thrown, edited |-> edited, total |-> total]

Apply(h, ev) ==
    /\ steps < MaxSteps
    /\ steps' = steps + 1
    /\ InFlight(h.fetches) <= MaxFetches
    /\ Len(h.saves) <= MaxSaves
    /\ filePath' = h.filePath
    /\ enabled' = h.enabled
    /\ initialTotalLines' = h.initialTotalLines
    /\ lines' = h.lines
    /\ totalLines' = h.totalLines
    /\ isLoading' = h.isLoading
    /\ isSaving' = h.isSaving
    /\ error' = h.error
    /\ editedLines' = h.editedLines
    /\ loadingRanges' = h.loadingRanges
    /\ loadedRanges' = h.loadedRanges
    /\ isFullyLoaded' = h.isFullyLoaded
    /\ fullContent' = h.fullContent
    /\ fetches' = h.fetches
    /\ saves' = h.saves
    /\ fetchedLines' = h.fetchedLines
    /\ last' = ev
    /\ UNCHANGED <<geometryVars, merging, ttsVars>>

\* the hook right after mount, with no call made yet
Mounted(h) ==
    /\ filePath = h.filePath
    /\ enabled = h.enabled
    /\ initialTotalLines = h.initialTotalLines
    /\ lines = h.lines
    /\ totalLines = h.totalLines
    /\ isLoading = h.isLoading
    /\ isSaving = h.isSaving
    /\ error = h.error
    /\ editedLines = h.editedLines
    /\ loadingRanges = h.loadingRanges
    /\ loadedRanges = h.loadedRanges
    /\ isFullyLoaded = h.isFullyLoaded
    /\ fullContent = h.fullContent
    /\ fetches = h.fetches
    /\ saves = h.saves
    /\ fetchedLines = h.fetchedLines
    /\ last = Event("mount", FALSE, FALSE, EmptyEdits, 0)
    /\ steps = 0

NoVisible == [called |-> FALSE]
NoMerge == [merged |-> FALSE]

\* no getVisibleRange call made, the default overscan
GeometryIdle == overscan = DefaultOverscan /\ visible = NoVisible
\* mergeRanges not exercised on its own
MergeIdle == merging = NoMerge
\* the hook mounted disabled on an empty file: it stays idle
EngineIdle == Mounted(Mount("A", FALSE, 0))
\* an empty cache directory, no call made
EmptyDir == [file \in FileNames |-> NoFile]
NoCall == [op |-> "none", calls |-> 0]
\* a cacheAudio call that has not started
IdleCacher ==
    [pc |-> "idle", cacheKey |-> "", audioData |-> NoAudio, currentCacheSize |-> 0,
     failed |-> FALSE]
NoCaching == [c \in 1..MaxCachers |-> IdleCacher]
TTSIdle == cacheFiles = EmptyDir /\ now = 0 /\ tts = NoCall /\ caching = NoCaching

Init ==
    /\ \E en \in BOOLEAN, itl \in InitialTotals : Mounted(Mount("A", en, itl))
    /\ GeometryIdle
    /\ MergeIdle
    /\ TTSIdle

NoEvent(op) == Event(op, FALSE, FALSE, EmptyEdits, 0)

\* ---- load protocol ----
\* a call of loadRange(startLine, endLine) by the UI
LoadRangeCall(startLine, endLine) ==
    LET h == loadRange(Cur, startLine, endLine) IN
    Apply(Commit(Cur, h), Event("loadRange", h.fetches # fetches, FALSE, EmptyEdits, 0))

LoadRange == \E w \in Windows : LoadRangeCall(w[1], w[2])

\* what fetchFileRange(file, start, end) resolves with for a file of `total` lines
\* whose line n reads text[n]
FetchResult(req, total, text) ==
    LET endLine == Max(req.start, Min(req.end, total)) IN
    [startLine |-> req.start, endLine |-> endLine, totalLines |-> total,
     lines |-> [i \in 1..(endLine - req.start) |-> text[req.start + i - 1]]]

\* mutant: line idx of the response is stored at startLine + idx + 1
StoreFetched_ShiftedByOne(prev, result) ==
    [n \in DOMAIN prev |->
        IF result.startLine < n /\ n <= result.startLine + Len(result.lines)
        THEN [content |-> result.lines[n - result.startLine], loaded |-> TRUE]
        ELSE prev[n]]

\* setLines(prev => ...) of loadRange
StoreFetched(prev, result) ==
    [n \in DOMAIN prev |->
        IF result.startLine <= n /\ n < result.startLine + Len(result.lines)
        THEN [content |-> result.lines[n - result.startLine + 1], loaded |-> TRUE]
        ELSE prev[n]]

\* mutant: the range is pushed and mergeRanges() is not called
recordRange_NoMerge(ranges, result) ==
    Append(ranges, [start |-> result.startLine, end |-> result.endLine])

\* loadedRanges.current.push(...); mergeRanges()
recordRange(ranges, result) ==
    mergeRanges(Append(ranges, [start |-> result.startLine, end |-> result.endLine]))

\* mutant: the pending key is cleared only on success (no finally block)
loadRangeFinally_KeepsKey(h, req) ==
    [h EXCEPT !.isLoading = FALSE, !.fetches = @ (-) SetToBag({req})]

\* finally { loadingRanges.current.delete(rangeKey); setIsLoading(false) }
loadRangeFinally(h, req) ==
    [h EXCEPT !.loadingRanges = @ \ {rangeKey(req.start, req.end)},
              !.isLoading = FALSE,
              !.fetches = @ (-) SetToBag({req})]

\* mutant: the response of a fetch issued for another file is dropped
loadRangeResolved_DropsStale(h, req, result) ==
    IF req.file # h.filePath THEN loadRangeFinally(h, req)
    ELSE loadRangeFinally(
             [h EXCEPT !.totalLines = result.totalLines,
                       !.lines = StoreFetched(@, result), !.linesSet = TRUE,
                       !.loadedRanges = recordRange(@, result),
                       !.fetchedLines = @ \cup (result.startLine..(result.endLine - 1))],
             req)

loadRangeResolved(h, req, result) ==
    loadRangeFinally(
        [h EXCEPT !.totalLines = result.totalLines,
                  !.lines = StoreFetched(@, result), !.linesSet = TRUE,
                  !.loadedRanges = recordRange(@, result),
                  !.fetchedLines = @ \cup (result.startLine..(result.endLine - 1))],
        req)

loadRangeRejected(h, req) ==
    loadRangeFinally([h EXCEPT !.error = "Failed to load file range"], req)

\* an awaited fetchFileRange resolves
\* a request that starts beyond the end of the file is answered by no modelled response
FetchOkOf(req, total, text) ==
    /\ CopiesIn(req, fetches) > 0
    /\ req.start < total \/ req.start = 0
    /\ Apply(Commit(Cur, loadRangeResolved(Cur, req, FetchResult(req, total, text))),
             NoEvent("fetchOk"))

FetchOk == \E req \in Requests, total \in Totals, text \in Texts : FetchOkOf(req, total, text)

\* an awaited fetchFileRange rejects
FetchFailOf(req) ==
    /\ CopiesIn(req, fetches) > 0
    /\ Apply(Commit(Cur, loadRangeRejected(Cur, req)), NoEvent("fetchFail"))

FetchFail == \E req \in Requests : FetchFailOf(req)

prefetchAdjacent(h, visibleStart, visibleEnd) ==
    LET prefetchBefore == Max(0, visibleStart - chunkSize)
        prefetchAfter == Min(h.totalLines, visibleEnd + chunkSize)
        h1 == IF ~isRangeLoaded(h.loadedRanges, prefetchBefore, visibleStart)
                 /\ prefetchBefore < visibleStart
              THEN loadRange(h, prefetchBefore, visibleStart) ELSE h
    IN  IF ~isRangeLoaded(h1.loadedRanges, visibleEnd, prefetchAfter)
           /\ prefetchAfter > visibleEnd
        THEN loadRange(h1, visibleEnd, prefetchAfter) ELSE h1

PrefetchAdjacent ==
    \E vs \in 0..MaxLines, ve \in 0..MaxLines :
        /\ vs <= ve
        /\ LET h == prefetchAdjacent(Cur, vs, ve) IN
           Apply(Commit(Cur, h),
                 Event("prefetchAdjacent", h.fetches # fetches, FALSE, EmptyEdits, 0))

loadAll(h) ==
    IF ~h.enabled \/ h.filePath = "" \/ h.totalLines = 0 THEN h
    ELSE IF isRangeLoaded(h.loadedRanges, 0, h.totalLines) THEN h
    ELSE loadRange(h, 0, h.totalLines)

LoadAll ==
    LET h == loadAll(Cur) IN
    Apply(Commit(Cur, h),
          Event("loadAll", h.fetches # fetches, FALSE, EmptyEdits, 0))

\* ---- edit overlay ----
\* mutant: the edit is also written into the Line Store
setLineContent_WritesStore(h, lineNumber, content) ==
    [h EXCEPT !.editedLines[lineNumber] = content,
              !.lines[lineNumber] = [content |-> content, loaded |-> TRUE],
              !.linesSet = TRUE]

setLineContent(h, lineNumber, content) ==
    [h EXCEPT !.editedLines[lineNumber] = content]

SetLineContent ==
    \E n \in LineIdx, c \in Content :
        Apply(Commit(Cur, setLineContent(Cur, n, c)),
              NoEvent("setLineContent"))

clearEdits(h) == [h EXCEPT !.editedLines = EmptyEdits]

ClearEdits ==
    Apply(Commit(Cur, clearEdits(Cur)), NoEvent("clearEdits"))

RECURSIVE SortedKeys(_)
SortedKeys(S) ==
    IF S = {} THEN <<>>
    ELSE LET m == CHOOSE x \in S : \A y \in S : x <= y
         IN <<m>> \o SortedKeys(S \ {m})

\* mutant: endLine is the last line of the run (inclusive)
RECURSIVE DirtyScan_Inclusive(_, _, _, _, _, _, _)
DirtyScan_Inclusive(edited, sortedLineNums, i, rangeStart, rangeLines, lastLine, ranges) ==
    LET flush == Append(ranges, [startLine |-> rangeStart, endLine |-> lastLine,
                                 content |-> Join(rangeLines, "\n")])
    IN  IF i > Len(sortedLineNums) THEN flush
        ELSE LET lineNum == sortedLineNums[i] IN
             IF lineNum = lastLine + 1
             THEN DirtyScan_Inclusive(edited, sortedLineNums, i + 1, rangeStart,
                                      Append(rangeLines, edited[lineNum]), lineNum, ranges)
             ELSE DirtyScan_Inclusive(edited, sortedLineNums, i + 1, lineNum,
                                      <<edited[lineNum]>>, lineNum, flush)

RECURSIVE DirtyScan(_, _, _, _, _, _, _)
DirtyScan(edited, sortedLineNums, i, rangeStart, rangeLines, lastLine, ranges) ==
    LET flush == Append(ranges, [startLine |-> rangeStart, endLine |-> lastLine + 1,
                                 content |-> Join(rangeLines, "\n")])
    IN  IF i > Len(sortedLineNums) THEN flush
        ELSE LET lineNum == sortedLineNums[i] IN
             IF lineNum = lastLine + 1
             THEN DirtyScan(edited, sortedLineNums, i + 1, rangeStart,
                            Append(rangeLines, edited[lineNum]), lineNum, ranges)
             ELSE DirtyScan(edited, sortedLineNums, i + 1, lineNum,
                            <<edited[lineNum]>>, lineNum, flush)

getDirtyRanges(edited) ==
    IF Size(edited) = 0 THEN <<>>
    ELSE LET sortedLineNums == SortedKeys(Keys(edited))
             rangeStart == sortedLineNums[1]
         IN  DirtyScan(edited, sortedLineNums, 2, rangeStart,
                       <<edited[rangeStart]>>, rangeStart, <<>>)

\* ---- save protocol ----
\* mutant: the batch lacks the patch of the last dirty range
PatchesOf_DropsLast(edited) ==
    LET dirtyRanges == getDirtyRanges(edited) IN
    [i \in 1..(Len(dirtyRanges) - 1) |->
        [type |-> "replace", startLine |-> dirtyRanges[i].startLine,
         endLine |-> dirtyRanges[i].endLine, content |-> dirtyRanges[i].content]]

\* dirtyRanges.map(range => ({type: 'replace', ...}))
PatchesOf(edited) ==
    LET dirtyRanges == getDirtyRanges(edited) IN
    [i \in 1..Len(dirtyRanges) |->
        [type |-> "replace", startLine |-> dirtyRanges[i].startLine,
         endLine |-> dirtyRanges[i].endLine, content |-> dirtyRanges[i].content]]

\* saveEdits, up to its await; the callback closes over filePath and editedLines
saveEdits(h) ==
    IF Size(h.editedLines) = 0 THEN h
    ELSE [h EXCEPT !.isSaving = TRUE,
                   !.error = NoError,
                   !.saves = Append(@, [file |-> h.filePath, edited |-> h.editedLines,
                                        patches |-> PatchesOf(h.editedLines)])]

SaveEdits ==
    LET h == saveEdits(Cur) IN
    Apply(Commit(Cur, h),
          Event("saveEdits", h.saves # saves, FALSE, EmptyEdits, 0))

RemoveAt(seq, i) == SubSeq(seq, 1, i - 1) \o SubSeq(seq, i + 1, Len(seq))

\* mutant: the saved lines are not written back
StoreSaved_NotWritten(prev, edited) == prev

\* setLines(prev => ...) of saveEdits: the closure's editedLines
StoreSaved(prev, edited) ==
    [n \in DOMAIN prev |->
        IF edited[n] # NoEdit THEN [content |-> edited[n], loaded |-> TRUE] ELSE prev[n]]

\* mutant: clearEdits() runs whatever the outcome
OverlayAfterSave_AlwaysCleared(overlay, success) == EmptyEdits

\* the overlay once applyFilePatches has settled
OverlayAfterSave(overlay, success) ==
    IF success THEN clearEdits([editedLines |-> overlay]).editedLines ELSE overlay

\* mutant: isSaving is left as it is when the call ends
saveEditsFinally_LeavesSaving(h, i) ==
    [h EXCEPT !.saves = RemoveAt(@, i)]

\* finally { setIsSaving(false) }
saveEditsFinally(h, i) ==
    [h EXCEPT !.isSaving = FALSE, !.saves = RemoveAt(@, i)]

\* applyFilePatches resolved with {success, totalLines}
saveEditsResolved(h, i, success, total) ==
    saveEditsFinally(
        IF success
        THEN [h EXCEPT !.totalLines = total,
                       !.lines = StoreSaved(@, h.saves[i].edited), !.linesSet = TRUE,
                       !.editedLines = OverlayAfterSave(@, TRUE)]
        ELSE [h EXCEPT !.editedLines = OverlayAfterSave(@, FALSE)],
        i)

\* applyFilePatches rejected: setError(...); throw err
saveEditsRejected(h, i) ==
    saveEditsFinally([h EXCEPT !.error = "Failed to save edits",
                               !.editedLines = OverlayAfterSave(@, FALSE)], i)

SaveOk ==
    \E i \in 1..Len(saves), total \in Totals :
        Apply(Commit(Cur, saveEditsResolved(Cur, i, TRUE, total)),
              Event("saveOk", FALSE, FALSE, saves[i].edited, total))

SaveUnsuccessful ==
    \E i \in 1..Len(saves), total \in Totals :
        Apply(Commit(Cur, saveEditsResolved(Cur, i, FALSE, total)),
              Event("saveUnsuccessful", FALSE, FALSE, saves[i].edited, 0))

SaveThrow ==
    \E i \in 1..Len(saves) :
        Apply(Commit(Cur, saveEditsRejected(Cur, i)),
              Event("saveThrow", FALSE, TRUE, saves[i].edited, 0))

\* ---- mergeRanges on its own ----
\* the ranges a response can report: 0 <= start <= end
Ranges == {r \in [start : 0..MaxEnd, end : 0..MaxEnd] : r.start <= r.end}

RECURSIVE RangeLists(_)
RangeLists(n) ==
    IF n = 0 THEN {<<>>}
    ELSE LET shorter == RangeLists(n - 1) IN
         shorter \cup {Append(l, r) : l \in {x \in shorter : Len(x) = n - 1}, r \in Ranges}

\* the list ranges[p[1]], ranges[p[2]], ...
Permuted(ranges, p) == [i \in 1..Len(ranges) |-> ranges[p[i]]]

\* loadedRanges.current = <list>; mergeRanges()
MergeRanges ==
    /\ ~merging.merged
    /\ merging' = [merged |-> TRUE, input |-> merging.input,
                   output |-> mergeRanges(merging.input)]
    /\ UNCHANGED <<engineVars, geometryVars, ttsVars>>

\* mergeRanges() once more on its own result
MergeRangesAgain ==
    /\ merging.merged
    /\ merging' = [merging EXCEPT !.output = mergeRanges(@)]
    /\ UNCHANGED <<engineVars, geometryVars, ttsVars>>

InitMerge ==
    /\ EngineIdle
    /\ GeometryIdle
    /\ \E l \in RangeLists(MaxRanges) : merging = [merged |-> FALSE, input |-> l]
    /\ TTSIdle

NextMerge == MergeRanges \/ MergeRangesAgain

SpecMerge == InitMerge /\ [][NextMerge]_vars

\* ---- the TTS cache ----
Present(dir) == {file \in FileNames : dir[file].exists}
FileSize(file, dir) == dir[file].audio.length

\* the orders in which readdir lists the names: by name, upwards or downwards
\* (which of two files of equal mtime comes first is the file system's choice)
DirOrders ==
    {<<Mp3Name("k1"), Mp3Name("k2"), Mp3Name("k3"), [base |-> "readme", ext |-> ".txt"]>>,
     <<[base |-> "readme", ext |-> ".txt"], Mp3Name("k3"), Mp3Name("k2"), Mp3Name("k1")>>}

RECURSIVE PresentOnly(_, _)
PresentOnly(files, dir) ==
    IF Len(files) = 0 THEN <<>>
    ELSE IF dir[files[1]].exists THEN <<files[1]>> \o PresentOnly(Tail(files), dir)
    ELSE PresentOnly(Tail(files), dir)

\* what readdir(TTS_CACHE_DIR) can resolve with
Listings(dir) == {PresentOnly(order, dir) : order \in DirOrders}

\* mutant: a file exactly as old as the TTL counts as expired
getCachedAudio_ExpiresAtTTL(dir, t, cacheKey, fail) ==
    LET path == Mp3Name(cacheKey) IN
    IF ~dir[path].exists \/ fail.op = "stat" THEN <<NoAudio, dir>>
    ELSE IF t - dir[path].mtimeMs >= CACHE_TTL_MS
         THEN IF fail.op = "unlink" THEN <<NoAudio, dir>>
              ELSE <<NoAudio, [dir EXCEPT ![path] = NoFile]>>
         ELSE IF fail.op = "readFile" THEN <<NoAudio, dir>>
              ELSE <<dir[path].audio, dir>>

\* getCachedAudio(cacheKey) at time t, where `fail` names the file operation
\* that rejects (NoFailure: none does); <<what it returns, the directory after>>
getCachedAudio(dir, t, cacheKey, fail) ==
    LET path == Mp3Name(cacheKey) IN
    IF ~dir[path].exists \/ fail.op = "stat" THEN <<NoAudio, dir>>
    ELSE IF t - dir[path].mtimeMs > CACHE_TTL_MS
         THEN IF fail.op = "unlink" THEN <<NoAudio, dir>>
              ELSE <<NoAudio, [dir EXCEPT ![path] = NoFile]>>
         ELSE IF fail.op = "readFile" THEN <<NoAudio, dir>>
              ELSE <<dir[path].audio, dir>>

\* fileInfos.sort((a, b) => a.mtimeMs - b.mtimeMs): a stable sort
RECURSIVE InsertByMtime(_, _, _)
InsertByMtime(sorted, file, dir) ==
    IF Len(sorted) = 0 THEN <<file>>
    ELSE IF dir[sorted[Len(sorted)]].mtimeMs <= dir[file].mtimeMs THEN Append(sorted, file)
    ELSE Append(InsertByMtime(SubSeq(sorted, 1, Len(sorted) - 1), file, dir),
                sorted[Len(sorted)])

RECURSIVE SortByMtime(_, _)
SortByMtime(files, dir) ==
    IF Len(files) = 0 THEN <<>>
    ELSE InsertByMtime(SortByMtime(SubSeq(files, 1, Len(files) - 1), dir),
                       files[Len(files)], dir)

\* the listing without the names that do not end with .mp3
RECURSIVE Mp3Only(_)
Mp3Only(files) ==
    IF Len(files) = 0 THEN <<>>
    ELSE IF endsWithMp3(files[1]) THEN <<files[1]>> \o Mp3Only(Tail(files))
    ELSE Mp3Only(Tail(files))

\* for (const fileInfo of fileInfos) { await unlink; freedSpace += size; if (freedSpace >= requiredSpace) break }
\* the unlink of the fail-th file rejects
RECURSIVE UnlinkLoop(_, _, _, _, _, _)
UnlinkLoop(fileInfos, i, freedSpace, requiredSpace, fail, acc) ==
    IF i > Len(fileInfos) \/ (fail.op = "unlink" /\ fail.at = i) THEN acc
    ELSE LET file == fileInfos[i]
             freed == freedSpace + FileSize(file, acc.dir)
             next == [dir |-> [acc.dir EXCEPT ![file] = NoFile],
                      deleted |-> Append(acc.deleted, file)]
         IN  IF freed >= requiredSpace THEN next
             ELSE UnlinkLoop(fileInfos, i + 1, freed, requiredSpace, fail, next)

\* the operations of cleanupOldestFiles that can reject
CleanupFailures ==
    {NoFailure, Failure("readdir", 0), Failure("stat", 0)}
        \cup {Failure("unlink", i) : i \in 1..Cardinality(Mp3Names)}

\* cleanupOldestFiles(requiredSpace) on a directory that readdir lists as
\* `files`; [dir: the directory after, deleted: the files unlinked, in order]
cleanupOldestFiles(dir, files, requiredSpace, fail) ==
    LET fileInfos == Mp3Only(files) IN
    IF fail.op = "readdir" \/ (fail.op = "stat" /\ Len(fileInfos) > 0)
    THEN [dir |-> dir, deleted |-> <<>>]
    ELSE UnlinkLoop(SortByMtime(fileInfos, dir), 1, 0, requiredSpace, fail,
                    [dir |-> dir, deleted |-> <<>>])

\* getCacheSize(): the sizes of the .mp3 files, 0 when an operation rejects
RECURSIVE SumSizes(_, _)
SumSizes(files, dir) ==
    IF Len(files) = 0 THEN 0 ELSE FileSize(files[1], dir) + SumSizes(Tail(files), dir)

getCacheSize(dir, files, fails) == IF fails THEN 0 ELSE SumSizes(Mp3Only(files), dir)

\* cacheAudio(cacheKey, audioData) at time t; `fail` names what rejects:
\* none, getCacheSize, writeFile, or an operation of cleanupOldestFiles
cacheAudio(dir, files, t, cacheKey, audioData, fail) ==
    LET currentCacheSize == getCacheSize(dir, files, fail.op = "getCacheSize")
        cleaned == IF currentCacheSize + audioData.length > MAX_CACHE_SIZE_BYTES
                   THEN cleanupOldestFiles(dir, files, audioData.length,
                                           IF fail \in CleanupFailures THEN fail ELSE NoFailure).dir
                   ELSE dir
    IN  IF fail.op = "writeFile" THEN cleaned
        ELSE [cleaned EXCEPT ![Mp3Name(cacheKey)] = [exists |-> TRUE, mtimeMs |-> t, audio |-> audioData]]

\* every call reads the clock, which never runs backwards
Call(t, call) ==
    /\ tts.calls < MaxCalls
    /\ t >= now
    /\ now' = t
    /\ tts' = call @@ [calls |-> tts.calls + 1]
    /\ UNCHANGED <<engineVars, geometryVars, merging, caching>>

GetCachedAudio ==
    \E t \in Times, cacheKey \in CacheKeys, fail \in {NoFailure, Failure("stat", 0), Failure("unlink", 1), Failure("readFile", 0)} :
        LET r == getCachedAudio(cacheFiles, t, cacheKey, fail) IN
        /\ Call(t, [op |-> "getCachedAudio", cacheKey |-> cacheKey, fail |-> fail,
                    result |-> r[1], threw |-> FALSE])
        /\ cacheFiles' = r[2]

CleanupOldestFiles ==
    \E t \in Times, requiredSpace \in RequiredSpaces, files \in Listings(cacheFiles),
       fail \in CleanupFailures :
        LET r == cleanupOldestFiles(cacheFiles, files, requiredSpace, fail) IN
        /\ Call(t, [op |-> "cleanupOldestFiles", requiredSpace |-> requiredSpace,
                    fail |-> fail, deleted |-> r.deleted])
        /\ cacheFiles' = r.dir

CacheAudio ==
    \E t \in Times, cacheKey \in CacheKeys, audioData \in AudioData,
       files \in Listings(cacheFiles),
       fail \in {NoFailure, Failure("getCacheSize", 0), Failure("writeFile", 0), Failure("unlink", 1)} :
        /\ Call(t, [op |-> "cacheAudio", cacheKey |-> cacheKey, fail |-> fail])
        /\ cacheFiles' = cacheAudio(cacheFiles, files, t, cacheKey, audioData, fail)

\* the server starts on the directory that earlier runs left: any .mp3 files
\* of the cache, and maybe a file that is not the cache's
OldFiles == {NoFile} \cup [exists : {TRUE}, mtimeMs : OldMtimes, audio : AudioData]

InitTTS ==
    /\ EngineIdle
    /\ GeometryIdle
    /\ MergeIdle
    /\ cacheFiles \in [FileNames -> OldFiles]
    /\ \A file \in FileNames \ Mp3Names :
           cacheFiles[file].exists => cacheFiles[file].mtimeMs = 0
    /\ now = 2
    /\ tts = NoCall
    /\ caching = NoCaching

NextTTS == GetCachedAudio \/ CleanupOldestFiles \/ CacheAudio

SpecTTS == InitTTS /\ [][NextTTS]_vars

\* ---- cacheAudio calls of concurrent requests, step by step ----
\* the total size of the .mp3 files of the cache
CacheTotal(dir) == getCacheSize(dir, PresentOnly(CHOOSE order \in DirOrders : TRUE, dir), FALSE)

\* cacheAudio(cacheKey, audioData) is called; await ensureCacheDir()
CacheAudioEnsureCacheDir(c) ==
    \E cacheKey \in CacheKeys, audioData \in AudioData :
        /\ caching[c].pc = "idle"
        /\ caching' = [caching EXCEPT ![c] = [IdleCacher EXCEPT !.pc = "getCacheSize",
                                                               !.cacheKey = cacheKey,
                                                               !.audioData = audioData]]
        /\ UNCHANGED <<engineVars, geometryVars, merging, cacheFiles, now, tts>>

\* const currentCacheSize = await getCacheSize(), and the test that follows
CacheAudioGetCacheSize(c) ==
    \E files \in Listings(cacheFiles), fails \in BOOLEAN :
        LET currentCacheSize == getCacheSize(cacheFiles, files, fails) IN
        /\ caching[c].pc = "getCacheSize"
        /\ caching' = [caching EXCEPT
               ![c].currentCacheSize = currentCacheSize,
               ![c].failed = fails,
               ![c].pc = IF currentCacheSize + caching[c].audioData.length > MAX_CACHE_SIZE_BYTES
                         THEN "cleanupOldestFiles" ELSE "writeFile"]
        /\ UNCHANGED <<engineVars, geometryVars, merging, cacheFiles, now, tts>>

\* await cleanupOldestFiles(audioData.length)
CacheAudioCleanupOldestFiles(c) ==
    \E files \in Listings(cacheFiles), fail \in {NoFailure, Failure("unlink", 1)} :
        /\ caching[c].pc = "cleanupOldestFiles"
        /\ cacheFiles' = cleanupOldestFiles(cacheFiles, files, caching[c].audioData.length, fail).dir
        /\ caching' = [caching EXCEPT ![c].pc = "writeFile",
                                      ![c].failed = @ \/ fail # NoFailure]
        /\ UNCHANGED <<engineVars, geometryVars, merging, now, tts>>

\* await writeFile(filePath, audioData), at time t; it resolves or rejects
CacheAudioWriteFile(c) ==
    \E t \in Times, fails \in BOOLEAN :
        /\ caching[c].pc = "writeFile"
        /\ t >= now
        /\ now' = t
        /\ cacheFiles' = IF fails THEN cacheFiles
                         ELSE [cacheFiles EXCEPT ![Mp3Name(caching[c].cacheKey)] =
                                  [exists |-> TRUE, mtimeMs |-> t,
                                   audio |-> caching[c].audioData]]
        /\ caching' = [caching EXCEPT ![c].pc = IF fails THEN "threw" ELSE "done",
                                      ![c].failed = @ \/ fails]
        /\ UNCHANGED <<engineVars, geometryVars, merging, tts>>

\* the cache directory is within its limit when the requests arrive
InitCache ==
    /\ EngineIdle
    /\ GeometryIdle
    /\ MergeIdle
    /\ cacheFiles \in [FileNames -> OldFiles]
    /\ \A file \in FileNames \ Mp3Names :
           cacheFiles[file].exists => cacheFiles[file].mtimeMs = 0
    /\ CacheTotal(cacheFiles) <= MAX_CACHE_SIZE_BYTES
    /\ now = 2
    /\ tts = NoCall
    /\ caching = NoCaching

NextCache ==
    \E c \in 1..MaxCachers :
        \/ CacheAudioEnsureCacheDir(c)
        \/ CacheAudioGetCacheSize(c)
        \/ CacheAudioCleanupOldestFiles(c)
        \/ CacheAudioWriteFile(c)

SpecCache == InitCache /\ [][NextCache]_vars

\* ---- viewport geometry ----
\* Math.floor(a / b) and Math.ceil(a / b) of integers a >= 0, b > 0
Floor(a, b) == a \div b
Ceil(a, b) == (a + b - 1) \div b

\* mutant: the visible count is rounded down
getVisibleRange_FloorCount(total, ov, scrollTop, viewportHeight, lineHeight) ==
    LET start == Max(0, Floor(scrollTop, lineHeight) - ov)
        visibleCount == Floor(viewportHeight, lineHeight)
        end == Min(total, start + visibleCount + ov * 2)
    IN  [start |-> start, end |-> end]

\* getVisibleRange(scrollTop, viewportHeight, lineHeight) of a render whose
\* totalLines is total and whose overscan is ov
getVisibleRange(total, ov, scrollTop, viewportHeight, lineHeight) ==
    LET start == Max(0, Floor(scrollTop, lineHeight) - ov)
        visibleCount == Ceil(viewportHeight, lineHeight)
        end == Min(total, start + visibleCount + ov * 2)
    IN  [start |-> start, end |-> end]

\* a call of getVisibleRange by the UI: it returns, and sets nothing
GetVisibleRange ==
    \E scrollTop \in 0..MaxScroll, viewportHeight \in 0..MaxViewport,
       lineHeight \in 1..MaxLineHeight :
        /\ visible' = [called |-> TRUE, scrollTop |-> scrollTop,
                       viewportHeight |-> viewportHeight, lineHeight |-> lineHeight,
                       range |-> getVisibleRange(totalLines, overscan, scrollTop,
                                                 viewportHeight, lineHeight)]
        /\ UNCHANGED <<engineVars, overscan, merging, ttsVars>>

\* the hook mounted disabled on a file of any length, with any overscan
InitVisible ==
    /\ \E itl \in 0..MaxTotal : Mounted(Mount("A", FALSE, itl))
    /\ overscan \in 0..MaxOverscan
    /\ visible = NoVisible
    /\ MergeIdle
    /\ TTSIdle

NextVisible == GetVisibleRange

SpecVisible == InitVisible /\ [][NextVisible]_vars

\* ---- the props change ----
SetFilePath ==
    \E f \in Files \ {filePath} :
        Apply(Commit(Cur, [Cur EXCEPT !.filePath = f]), NoEvent("setFilePath"))

SetEnabled ==
    Apply(Commit(Cur, [Cur EXCEPT !.enabled = ~enabled]), NoEvent("setEnabled"))

SetInitialTotalLines ==
    \E n \in InitialTotals \ {initialTotalLines} :
        Apply(Commit(Cur, [Cur EXCEPT !.initialTotalLines = n]),
              NoEvent("setInitialTotalLines"))

Next ==
    \/ LoadRange
    \/ FetchOk
    \/ FetchFail
    \/ PrefetchAdjacent
    \/ LoadAll
    \/ SetLineContent
    \/ ClearEdits
    \/ SaveEdits
    \/ SaveOk
    \/ SaveUnsuccessful
    \/ SaveThrow
    \/ SetFilePath
    \/ SetEnabled
    \/ SetInitialTotalLines

Spec == Init /\ [][Next]_vars

\* ---- observables ----
hasUnsavedChanges == Size(editedLines) > 0
LineText(store, n) == IF n \in DOMAIN store THEN store[n].content ELSE ""

\* ======================= claims =======================

\* C1: a save that fails (applyPatches throws, or answers success:false) leaves
\* the Edit Overlay exactly as it was: the settling step changes no entry, and
\* neither does the call itself.
C1_SaveFailurePreservesEdits ==
    [][last'.op \in {"saveThrow", "saveUnsuccessful", "saveEdits"}
          => editedLines' = editedLines]_vars

C1_Witness ==
    /\ last.op \in {"saveThrow", "saveUnsuccessful"}
    /\ hasUnsavedChanges
    /\ editedLines = last.edited

\* C2: after a save whose applyPatches answered success:true, hasUnsavedChanges
\* is false, every line of the overlay the call started with is in the Line
\* Store, loaded, with its edited content, and totalLines is the response's.
C2_SaveSuccess ==
    last.op = "saveOk" =>
        /\ ~hasUnsavedChanges
        /\ \A n \in Keys(last.edited) :
               lines[n] = [content |-> last.edited[n], loaded |-> TRUE]
        /\ totalLines = last.total

C2_Witness ==
    /\ last.op = "saveOk"
    /\ Size(last.edited) >= 2
    /\ last.total # initialTotalLines

\* C4: the Loaded-Range Set is sorted by start and no two consecutive ranges
\* overlap or touch; loadRange(0,200) then loadRange(150,350), each answered
\* with the requested window, leave the one range {start: 0, end: 350}.
C4_RangesSortedDisjoint ==
    /\ \A i \in 1..(Len(loadedRanges) - 1) :
           /\ loadedRanges[i].start <= loadedRanges[i + 1].start
           /\ loadedRanges[i + 1].start > loadedRanges[i].end
    /\ recordRange(recordRange(<<>>, [startLine |-> 0, endLine |-> 200]),
                   [startLine |-> 150, endLine |-> 350])
         = <<[start |-> 0, end |-> 350]>>

C4_Witness == Len(loadedRanges) >= 2

\* C6: a loadRange(a, b) call made when one range of the Loaded-Range Set
\* contains [a, b) issues no fetch and leaves the Line Store, the Loaded-Range
\* Set, PendingLoad, totalLines, isLoading and error unchanged.
C6_SubsumedLoadIsNoOp ==
    [][\A w \in Windows :
          (/\ last'.op = "loadRange"
           /\ isRangeLoaded(loadedRanges, w[1], w[2])
           /\ LoadRangeCall(w[1], w[2]))
              => UNCHANGED <<fetches, lines, loadedRanges, loadingRanges,
                             totalLines, isLoading, error>>]_vars

\* not issued although enabled, with a file and with no key pending: subsumed
C6_Witness ==
    /\ last.op = "loadRange" /\ ~last.issued
    /\ enabled /\ filePath # "" /\ loadingRanges = {}
    /\ loadedRanges # <<>>

\* C7: when the fetch of loadRange(s, e) fails, the error is set, no range is
\* recorded, no line is written, nothing is thrown to the caller and the key
\* "s-e" leaves PendingLoad, so that a following loadRange(s, e) is not
\* suppressed as a duplicate: it issues a fetch unless the engine is disabled
\* or the range has been loaded meanwhile.
C7_LoadFailure ==
    [][\A req \in Requests :
          (last'.op = "fetchFail" /\ FetchFailOf(req)) =>
              /\ error' # NoError
              /\ loadedRanges' = loadedRanges
              /\ lines' = lines
              /\ ~last'.thrown
              /\ rangeKey(req.start, req.end) \notin loadingRanges'
              /\ \/ ~enabled'
                 \/ isRangeLoaded(loadedRanges', req.start, req.end)
                 \/ loadRange(Cur', req.start, req.end).fetches # fetches']_vars

C7_Witness ==
    /\ last.op = "fetchFail"
    /\ error # NoError
    /\ enabled /\ loadedRanges # <<>>

\* C8: getDirtyRanges returns the maximal runs of consecutive edited lines, in
\* ascending order, pairwise disjoint and not adjacent, covering exactly the
\* edited lines, each with its contents joined by newlines; nothing for an
\* empty overlay; [5,7) and [10,11) for edits on {5, 6, 10}.
RunContent(edited, a, b) == Join([i \in 1..(b - a) |-> edited[a + i - 1]], "\n")

DirtyRangesOk(edited) ==
    LET d == getDirtyRanges(edited) IN
    /\ (Keys(edited) = {}) => (d = <<>>)
    /\ \A i \in 1..Len(d) :
           /\ d[i].startLine < d[i].endLine
           /\ \A n \in d[i].startLine..(d[i].endLine - 1) : n \in Keys(edited)
           /\ d[i].content = RunContent(edited, d[i].startLine, d[i].endLine)
    /\ \A i \in 1..(Len(d) - 1) : d[i].endLine < d[i + 1].startLine
    /\ \A n \in Keys(edited) :
           \E i \in 1..Len(d) : d[i].startLine <= n /\ n < d[i].endLine

Edits5610 ==
    [n \in 0..10 |-> IF n = 5 THEN "five" ELSE IF n = 6 THEN "six"
                     ELSE IF n = 10 THEN "ten" ELSE NoEdit]

C8_DirtyRanges ==
    /\ DirtyRangesOk(editedLines)
    /\ \A i \in 1..Len(saves) :
           /\ DirtyRangesOk(saves[i].edited)
           /\ Len(saves[i].patches) = Len(getDirtyRanges(saves[i].edited))
    /\ getDirtyRanges(Edits5610)
         = <<[startLine |-> 5, endLine |-> 7, content |-> "five\nsix"],
             [startLine |-> 10, endLine |-> 11, content |-> "ten"]>>

C8_Witness ==
    /\ Len(saves) > 0
    /\ Len(saves[1].patches) = 2
    /\ \E i \in 1..2 : saves[1].patches[i].endLine - saves[1].patches[i].startLine = 2

\* C9: fullContent is null while the exposed isFullyLoaded is false; while it
\* is true, fullContent is the Line Store's contents at 0..totalLines-1 joined
\* by newlines (the overlay takes no part).
C9_FullContentGate ==
    /\ ~isFullyLoaded => fullContent = NullContent
    /\ isFullyLoaded =>
           fullContent = Join([i \in 1..totalLines |-> LineText(lines, i - 1)], "\n")

C9_Witness ==
    /\ isFullyLoaded
    /\ fullContent # NullContent
    /\ hasUnsavedChanges

\* C3: the line indices covered by the Loaded-Range Set are exactly the union of
\* the windows [startLine, endLine) the successful fetches returned.
C3_RangeCoverage == Covered(loadedRanges) = fetchedLines

\* C5: at no time are two fetches of one file with the same (start, end) in flight.
C5_NoDuplicateFetch == \A req \in Requests : CopiesIn(req, fetches) <= 1

\* C10: the exposed isFullyLoaded is true iff totalLines > 0 and
\* isRangeLoaded(0, totalLines) holds of the current Loaded-Range Set.
C10_IsFullyLoadedExact ==
    isFullyLoaded = (totalLines > 0 /\ isRangeLoaded(loadedRanges, 0, totalLines))

\* C11: every save that fails, be it by an exception of applyPatches or by an
\* answer success:false, leaves the error observable set and throws to the
\* caller of saveEdits.
C11_SaveFailureRaises ==
    last.op \in {"saveThrow", "saveUnsuccessful"} => (error # NoError /\ last.thrown)

\* C12: no step taken while enabled is false (and stays false) puts a fetch
\* or an applyPatches call in flight.
C12_DisabledIssuesNothing ==
    [][(~enabled /\ ~enabled') =>
          /\ \A req \in Requests : CopiesIn(req, fetches') <= CopiesIn(req, fetches)
          /\ Len(saves') <= Len(saves)]_vars

\* C13: the step in which filePath changes leaves the Line Store, the Edit
\* Overlay and the Loaded-Range Set empty and totalLines equal to
\* initialTotalLines.
C13_ResetOnFileChange ==
    [][filePath' # filePath =>
          /\ lines' = EmptyLines
          /\ editedLines' = EmptyEdits
          /\ loadedRanges' = <<>>
          /\ totalLines' = initialTotalLines']_vars

\* the file was switched while a save of the previous file's edits is in flight
C13_Witness ==
    /\ last.op = "setFilePath"
    /\ Len(saves) > 0 /\ saves[1].file # filePath
    /\ ~hasUnsavedChanges /\ totalLines = initialTotalLines

\* C15: a saveEdits call with a non-empty overlay puts exactly one applyPatches
\* call in flight, whose batch is the 'replace' patches of the overlay's dirty
\* ranges in ascending startLine order; with an empty overlay it issues
\* nothing and changes no state.
C15_SaveBatch ==
    [][last'.op = "saveEdits" =>
          IF Size(editedLines) > 0
          THEN LET d == getDirtyRanges(editedLines) IN
               /\ Len(saves') = Len(saves) + 1
               /\ SubSeq(saves', 1, Len(saves)) = saves
               /\ LET p == saves'[Len(saves')].patches IN
                  /\ Len(p) = Len(d)
                  /\ \A i \in 1..Len(p) :
                         p[i] = [type |-> "replace", startLine |-> d[i].startLine,
                                 endLine |-> d[i].endLine, content |-> d[i].content]
                  /\ \A i \in 1..(Len(p) - 1) : p[i].startLine < p[i + 1].startLine
               /\ fetches' = fetches
          ELSE UNCHANGED <<filePath, enabled, initialTotalLines, lines, totalLines,
                           isLoading, isSaving, error, editedLines, loadingRanges,
                           loadedRanges, isFullyLoaded, fullContent, fetches, saves>>]_vars

C15_Witness ==
    /\ last.op = "saveEdits" /\ last.issued
    /\ Len(saves[Len(saves)].patches) = 2
    /\ isSaving

\* C14: getVisibleRange returns start = max(0, floor(scrollTop/lineHeight) -
\* overscan) and end = min(totalLines, start + ceil(viewportHeight/lineHeight)
\* + 2*overscan), where floor(a/b) is the k with k*b <= a < (k+1)*b and
\* ceil(a/b) the c with (c-1)*b < a <= c*b; the call changes no state and
\* issues no request; with scrollTop=1000, viewportHeight=500, lineHeight=20,
\* overscan=10 it returns start=40 and end=min(totalLines,85).
C14_VisibleRange ==
    [][visible'.called =>
          LET v == visible'
              k == CHOOSE k \in 0..v.scrollTop :
                       k * v.lineHeight <= v.scrollTop /\ v.scrollTop < (k + 1) * v.lineHeight
              c == CHOOSE c \in 0..v.viewportHeight :
                       (c - 1) * v.lineHeight < v.viewportHeight
                           /\ v.viewportHeight <= c * v.lineHeight
          IN  /\ v.range.start = Max(0, k - overscan)
              /\ v.range.end = Min(totalLines, v.range.start + c + 2 * overscan)
              /\ UNCHANGED <<engineVars, overscan>>
              /\ \A t \in {0, 60, 85, 200} :
                     getVisibleRange(t, 10, 1000, 500, 20) = [start |-> 40, end |-> Min(t, 85)]]_vars

\* a call whose window is cut at both ends: start clamped to 0, end to totalLines
C14_Witness ==
    /\ visible.called
    /\ visible.scrollTop > 0 /\ visible.viewportHeight % visible.lineHeight # 0
    /\ visible.range.start = 0 /\ visible.range.end = totalLines /\ totalLines > 0

\* C19: mergeRanges is idempotent (run on its own result it changes nothing)
\* and its result is the same for every permutation of its input list.
C19_MergeIdempotentOrderFree ==
    merging.merged =>
        /\ mergeRanges(merging.output) = merging.output
        /\ \A p \in Permutations(1..Len(merging.input)) :
               mergeRanges(Permuted(merging.input, p)) = mergeRanges(merging.input)
        /\ merging.output = mergeRanges(merging.input)

\* three ranges given out of order, two of which merge
C19_Witness ==
    /\ merging.merged
    /\ Len(merging.input) = 3 /\ Len(merging.output) = 2
    /\ merging.input[1].start > merging.input[2].start
    /\ merging.input[2].start > merging.input[3].start

\* ---- two fetches in flight, settled in either order ----
\* the hook once the fetch of req has resolved with the lines of a file of
\* `total` lines reading `text`, and the render and effects that follow
Settled(h, req, total, text) ==
    Commit(h, loadRangeResolved(h, req, FetchResult(req, total, text)))

\* two fetches of one file awaited at once (each pair listed once)
PendingPairs ==
    {p \in Requests \X Requests :
        /\ p[1].file = p[2].file
        /\ p[1].start < p[2].start \/ (p[1].start = p[2].start /\ p[1].end <= p[2].end)
        /\ CopiesIn(p[1], fetches) > 0 /\ CopiesIn(p[2], fetches) > 0
        /\ p[1] = p[2] => CopiesIn(p[1], fetches) > 1}

Answerable(req, total) == req.start < total \/ req.start = 0

\* the line indices a response returns
Returned(req, total) == req.start..(Max(req.start, Min(req.end, total)) - 1)

SameOutcome(a, b) == a.loadedRanges = b.loadedRanges /\ a.lines = b.lines

OrderFree(r1, t1, x1, r2, t2, x2) ==
    SameOutcome(Settled(Settled(Cur, r1, t1, x1), r2, t2, x2),
                Settled(Settled(Cur, r2, t2, x2), r1, t1, x1))

\* loads only: loadRange calls and fetches that succeed
NextLoads == LoadRange \/ FetchOk

SpecLoads == Init /\ [][NextLoads]_vars

\* C18 (as stated): whatever two fetches in flight are answered with, the
\* Loaded-Range Set and the Line Store they leave do not depend on which of
\* the two settles first.
C18_CompletionOrderFree ==
    BagCardinality(fetches) >= 2 =>
        \A p \in PendingPairs : \A t1, t2 \in Totals : \A x1, x2 \in Texts :
            (Answerable(p[1], t1) /\ Answerable(p[2], t2))
                => OrderFree(p[1], t1, x1, p[2], t2, x2)

\* C18 (amended): the same, for answers that give one content to every line
\* index both of them return.
C18_CompletionOrderFreeSameContent ==
    BagCardinality(fetches) >= 2 =>
        \A p \in PendingPairs : \A t1, t2 \in Totals : \A x1, x2 \in Texts :
            (/\ Answerable(p[1], t1) /\ Answerable(p[2], t2)
             /\ \A n \in Returned(p[1], t1) \cap Returned(p[2], t2) : x1[n] = x2[n])
                => OrderFree(p[1], t1, x1, p[2], t2, x2)

\* two fetches of overlapping, different windows of the current file in flight
C18_Witness ==
    \E p \in PendingPairs :
        /\ p[1] # p[2] /\ p[1].file = filePath
        /\ p[1].start < p[2].start /\ p[2].start < p[1].end /\ p[1].end < p[2].end

\* C20: in every state a reader can see, each line that a fetch returned and
\* that lies in a range isRangeLoaded answers true for is in the Line Store,
\* loaded.
C20_WriteThenRecord ==
    \A w \in Windows :
        isRangeLoaded(loadedRanges, w[1], w[2]) =>
            \A n \in w[1]..(w[2] - 1) : n \in fetchedLines => lines[n].loaded

\* a fetch has just recorded a range that is not the whole file
C20_Witness ==
    /\ last.op = "fetchOk"
    /\ \E w \in Windows : isRangeLoaded(loadedRanges, w[1], w[2]) /\ w[1] > 0
    /\ fetchedLines # {}
    /\ BagCardinality(fetches) > 0

\* ---- the TTS cache: claims ----
Mtime(file) == cacheFiles[file].mtimeMs

RECURSIVE FreedBy(_, _)
FreedBy(deleted, n) ==
    IF n = 0 THEN 0 ELSE FreedBy(deleted, n - 1) + FileSize(deleted[n], cacheFiles)

\* the step is a call of cleanupOldestFiles that obeys the claim
CleanupObeys ==
    LET deleted == tts'.deleted
        gone == {deleted[i] : i \in 1..Len(deleted)}
    IN  /\ cacheFiles' = [file \in FileNames |->
                             IF file \in gone THEN NoFile ELSE cacheFiles[file]]
        /\ \A file \in gone : endsWithMp3(file) /\ cacheFiles[file].exists
        /\ \A i, j \in 1..Len(deleted) : i < j => Mtime(deleted[i]) <= Mtime(deleted[j])
        /\ \A file \in gone : \A older \in Present(cacheFiles') :
               endsWithMp3(older) => ~(Mtime(older) < Mtime(file))
        /\ \A i \in 1..Len(deleted) : FreedBy(deleted, i - 1) < tts'.requiredSpace
        /\ tts'.fail = NoFailure =>
               \/ FreedBy(deleted, Len(deleted)) >= tts'.requiredSpace
               \/ \A file \in Present(cacheFiles') : ~endsWithMp3(file)

\* C16: cleanupOldestFiles(requiredSpace) deletes .mp3 files only, oldest
\* first, none while an older .mp3 file remains, and none once the sizes of
\* the files deleted so far add up to requiredSpace or more.
C16_CleanupOldestFirst ==
    [][tts'.op = "cleanupOldestFiles" /\ tts'.calls # tts.calls => CleanupObeys]_vars

\* the same, of the calls that ask for one byte or more (this holds)
C16_CleanupOldestFirstPositive ==
    [][(tts'.op = "cleanupOldestFiles" /\ tts'.calls # tts.calls
            /\ tts'.requiredSpace >= 1) => CleanupObeys]_vars

\* C17: getCachedAudio(key) returns the stored audio exactly when the file of
\* key exists, its age is at most the TTL and no file operation fails; when
\* the file is older it returns null and the file is gone (unless the unlink
\* fails); it never throws, and it touches no other file.
C17_CachedAudio ==
    [][tts'.op = "getCachedAudio" /\ tts'.calls # tts.calls =>
          LET file == Mp3Name(tts'.cacheKey)
              exists == cacheFiles[file].exists
              age == IF exists THEN now' - cacheFiles[file].mtimeMs ELSE 0
              failed == \/ tts'.fail.op = "stat"
                        \/ exists /\ age > CACHE_TTL_MS /\ tts'.fail.op = "unlink"
                        \/ exists /\ age <= CACHE_TTL_MS /\ tts'.fail.op = "readFile"
          IN  /\ ~tts'.threw
              /\ (tts'.result # NoAudio) <=> (exists /\ age <= CACHE_TTL_MS /\ ~failed)
              /\ tts'.result # NoAudio => tts'.result = cacheFiles[file].audio
              /\ (exists /\ age > CACHE_TTL_MS /\ ~failed) =>
                     (tts'.result = NoAudio /\ ~cacheFiles'[file].exists)
              /\ (~exists \/ failed) => (tts'.result = NoAudio /\ cacheFiles' = cacheFiles)
              /\ \A other \in FileNames \ {file} : cacheFiles'[other] = cacheFiles[other]]_vars

\* a file read when it is exactly as old as the TTL
C17_Witness ==
    /\ tts.op = "getCachedAudio" /\ tts.fail = NoFailure /\ tts.result # NoAudio
    /\ cacheFiles[Mp3Name(tts.cacheKey)].exists
    /\ now - cacheFiles[Mp3Name(tts.cacheKey)].mtimeMs = CACHE_TTL_MS

\* C21: whenever the exposed isFullyLoaded is true, every line index below
\* totalLines has a Line Store entry.
C21_FullyLoadedHasEveryLine ==
    isFullyLoaded => \A i \in 0..(totalLines - 1) : i \in DOMAIN lines /\ lines[i].loaded

\* C22: once a fetch of loadRange has completed successfully, error is null.
C22_SuccessClearsError == last.op = "fetchOk" => error = NoError

\* C23: setLineContent(n, c) sets the overlay entry of line n to c and leaves
\* every other overlay entry, the Line Store, the Loaded-Range Set, the
\* pending keys and totalLines as they were, and issues no request.
C23_SetLineContentFrame ==
    [][last'.op = "setLineContent" =>
          /\ \E n \in LineIdx, c \in Content :
                 editedLines' = [editedLines EXCEPT ![n] = c]
          /\ UNCHANGED <<lines, loadedRanges, loadingRanges, totalLines, fetches, saves>>]_vars

\* a line edited that has no Line Store entry and lies in no loaded range,
\* next to a loaded one
C23_Witness ==
    /\ last.op = "setLineContent"
    /\ \E n \in LineIdx :
           /\ editedLines[n] # NoEdit /\ ~lines[n].loaded
           /\ ~isRangeLoaded(loadedRanges, n, n + 1)
    /\ loadedRanges # <<>>

\* C27: isLoading is true in every state in which a fetch is in flight.
C27_LoadingWhileInFlight == BagCardinality(fetches) > 0 => isLoading

\* C24: a fetch issued for one file that resolves after filePath has changed is
\* not discarded: its lines, its totalLines and its range are written into the
\* Line Store, totalLines and Loaded-Range Set of the file now shown.
C24_StaleFetchWritten ==
    [][\A req \in Requests :
          (last'.op = "fetchOk" /\ CopiesIn(req, fetches) > 0 /\ req.file # filePath) =>
              \A total \in Totals, text \in Texts :
                  FetchOkOf(req, total, text) =>
                      LET result == FetchResult(req, total, text) IN
                      /\ filePath' = filePath
                      /\ totalLines' = result.totalLines
                      /\ \A i \in 1..Len(result.lines) :
                             lines'[result.startLine + i - 1] =
                                 [content |-> result.lines[i], loaded |-> TRUE]
                      /\ isRangeLoaded(loadedRanges', result.startLine, result.endLine)]_vars

\* two steps after the mount of file "A": the switch to "B", which issues the
\* first fetch of "B", then the completion of the fetch that the mount issued
\* for "A", while the fetch of "B" is still awaited
C24_Witness ==
    /\ steps = 2 /\ filePath = "B" /\ last.op = "fetchOk"
    /\ fetches = SetToBag({[file |-> "B", start |-> 0, end |-> chunkSize]})
    /\ totalLines > 0 /\ lines[0].loaded /\ isRangeLoaded(loadedRanges, 0, 1)

\* C25: isSaving is true exactly while a saveEdits call awaits applyFilePatches.
C25_SavingWhileAwaited == isSaving <=> Len(saves) > 0

\* C25, amended: isSaving turns true when a saveEdits call starts to await,
\* turns false when an awaited call ends, whatever its outcome, and no other
\* step changes it; so it is true exactly while a call that overlaps no other
\* call is awaited.
C25_SavingUntilFirstEnd ==
    [][/\ Len(saves') > Len(saves) => isSaving'
       /\ Len(saves') < Len(saves) => ~isSaving'
       /\ Len(saves') = Len(saves) => isSaving' = isSaving]_vars

\* a save call that overlapped no other has just ended by a throw
C25_Witness ==
    /\ last.op = "saveThrow" /\ saves = <<>> /\ ~isSaving /\ steps = 3

\* C26: when a save succeeds, every overlay entry whose content was not in
\* the batch that save submitted is still in the overlay, and
\* hasUnsavedChanges stays true for it.
C26_EditDuringSaveKept ==
    [][last'.op = "saveOk" =>
          \A n \in LineIdx :
              (editedLines[n] # NoEdit /\ editedLines[n] # last'.edited[n]) =>
                  /\ editedLines'[n] = editedLines[n]
                  /\ Size(editedLines') > 0]_vars

\* C28: after a successful save of line n with content c, a fetch of the same
\* file that was awaited before the save ended and resolves after it leaves
\* the Line Store entry of line n at content c.
C28_SavedContentKept ==
    [][last'.op = "saveOk" =>
          \A req \in Requests :
              (CopiesIn(req, fetches) > 0 /\ CopiesIn(req, fetches') > 0
                    /\ req.file = filePath') =>
                  \A total \in Totals, text \in Texts :
                      Answerable(req, total) =>
                          \A n \in LineIdx :
                              (last'.edited[n] # NoEdit /\ lines'[n].content = last'.edited[n]) =>
                                  Settled(Cur', req, total, text).lines[n].content
                                      = last'.edited[n]]_vars

\* C29: the range returned by getVisibleRange satisfies
\* 0 <= start <= end <= totalLines.
C29_VisibleRangeOrdered ==
    visible.called =>
        /\ 0 <= visible.range.start
        /\ visible.range.start <= visible.range.end
        /\ visible.range.end <= totalLines

\* C30: a cache directory that is within MAX_CACHE_SIZE_BYTES before
\* cacheAudio calls of data no larger than the limit is within the limit once
\* the calls have completed, run one after the other or interleaved at their
\* awaits (no file operation having rejected).
C30_CacheWithinLimit ==
    (\A c \in 1..MaxCachers : caching[c].pc \in {"idle", "done"} /\ ~caching[c].failed)
        => CacheTotal(cacheFiles) <= MAX_CACHE_SIZE_BYTES

\* C30, one call at a time: a cacheAudio call that runs alone, with no file
\* operation rejecting, leaves a directory that was within the limit within it.
C30_CacheWithinLimitSequential ==
    [][(tts'.op = "cacheAudio" /\ tts'.fail = NoFailure
            /\ CacheTotal(cacheFiles) <= MAX_CACHE_SIZE_BYTES)
          => CacheTotal(cacheFiles') <= MAX_CACHE_SIZE_BYTES]_vars

====
